---- MODULE Spec2Model ----
(***************************************************************************)
(* Aggregation & Insight Engine of the Usage-vs-Revenue analyzer.          *)
(*                                                                         *)
(* The committed database is five tables (customers, usage_events,         *)
(* revenue_events, daily_aggregates, insight_flags).  Every service call   *)
(* runs in a SQLAlchemy session (autocommit=False, autoflush=False): what  *)
(* a call adds or changes stays in the session until commit() flushes it,  *)
(* and close() without commit discards it.  A call is modelled as the      *)
(* sequence of its queries, one step each, so that a failure can strike    *)
(* between any two of them.                                                *)
(*                                                                         *)
(* Time is counted in ticks, TicksPerDay ticks to a day; a datetime is a   *)
(* tick and a day starts at a multiple of TicksPerDay.  Floats are         *)
(* modelled as integers.  A nullable column holds <<>> (NULL) or <<v>>.    *)
(***************************************************************************)
EXTENDS Integers, Sequences, FiniteSets, TLC

(***************************************************************************)
(* Bounds of the model.                                                    *)
(***************************************************************************)
TicksPerDay == 2
MaxUsageEvents == 2
MaxRevenueEvents == 2
MaxCalls == 2
MaxBatch == 2
MaxComputeCalls == 3
MaxHours == 15

(***************************************************************************)
(* Program constants.                                                      *)
(***************************************************************************)
HighUsageThreshold == 10000
LowRevenueThreshold == 100
CriticalLossThreshold == 1000
WindowDays == 30
HoursPerDay == 24
MaterializeHour == 2
ComputeEveryHours == 6

NULL == <<>>
Some(v) == <<v>>
IsNull(o) == o = <<>>
Val(o) == o[1]

SessionIds == {1, 2}

Midnight(d) == d * TicksPerDay
Noon(d) == d * TicksPerDay + 1

(***************************************************************************)
(* Plan labels are strings; a string is a sequence of characters so that   *)
(* LIKE can be computed on it.                                             *)
(***************************************************************************)
PlanUnknown == <<"U", "n", "k", "n", "o", "w", "n">>
PlanLegacy == <<"l", "e", "g", "a", "c", "y", "-", "v", "1">>
PlanLegacyCaps == <<"P", "r", "o", " ", "L", "E", "G", "A", "C", "Y">>
PlanPro == <<"p", "r", "o">>
LegacyPattern == <<"l", "e", "g", "a", "c", "y">>

FeatureList == <<"chat", "embed">>

VARIABLES customers, usage_events, revenue_events, daily_aggregates,
          insight_flags, now, sess, calls, fresh, evaluated, last, clock

tables == <<customers, usage_events, revenue_events, daily_aggregates, insight_flags>>
vars == <<customers, usage_events, revenue_events, daily_aggregates,
          insight_flags, now, sess, calls, fresh, evaluated, last, clock>>

(***************************************************************************)
(* Helpers: sums over the rows of a query result.                          *)
(***************************************************************************)
RECURSIVE Sum(_, _)
Sum(f, S) ==
    IF S = {} THEN 0
    ELSE LET x == CHOOSE y \in S : TRUE
         IN  f[x] + Sum(f, S \ {x})

RECURSIVE SortedIds(_)
SortedIds(S) ==
    IF S = {} THEN <<>>
    ELSE LET m == CHOOSE y \in S : \A z \in S : y <= z
         IN  <<m>> \o SortedIds(S \ {m})

SeqToSet(s) == {s[i] : i \in 1..Len(s)}

\* date.replace(hour=0, minute=0, second=0, microsecond=0)
StartOfDay(date) == (date \div TicksPerDay) * TicksPerDay
\* start_of_day + timedelta(days=1)
EndOfDay(date) == StartOfDay(date) + TicksPerDay

\* The scheduler's wall clock: the hour, counted from day 0 00:00, and the
\* job the scheduler has to start in this hour ("none" when it started it
\* or no job is due).  A tick of the store's time holds several hours.
HourOf(t) == (t * HoursPerDay) \div TicksPerDay
TickOf(h) == (h * TicksPerDay) \div HoursPerDay
ClockAt(t) == [hour |-> HourOf(t), due |-> "none"]

IdleSession ==
    [pc |-> "idle", date |-> 0, new |-> <<>>, dirty |-> {}, created |-> 0,
     deactivated |-> {}, new_flags |-> <<>>, insights_created |-> 0,
     raced |-> FALSE]

NoCall ==
    [op |-> "none", ret |-> 0, date |-> 0, repeat |-> FALSE, raced |-> FALSE,
     result |-> <<>>]

Init ==
    /\ customers = {}
    /\ usage_events = {}
    /\ revenue_events = {}
    /\ daily_aggregates = {}
    /\ insight_flags = {}
    /\ now = Noon(1)
    /\ sess = [s \in SessionIds |-> IdleSession]
    /\ calls = 0
    /\ fresh = {}
    /\ evaluated = NULL
    /\ last = NoCall
    /\ clock = ClockAt(Noon(1))

(***************************************************************************)
(* History variables, read by the properties only: fresh is the set of     *)
(* days materialized since the last event written into their window;       *)
(* evaluated holds the return value of the last committed compute_insights *)
(* while nothing it reads has changed since; last describes the call that  *)
(* ended last (repeat: for materialize, the day was fresh; for compute,    *)
(* evaluated was set; for a failed call, the session held changes; raced:  *)
(* another materialize of the same day committed after this one's checks;  *)
(* result: what a query returned, or the batch an ingestion was given).    *)
(* MatCustomers and CiDeactivate, the first steps of the two calls, leave   *)
(* the scheduler's clock to their caller.                                   *)
(***************************************************************************)
AllIdle == \A s \in SessionIds : sess[s].pc = "idle"

(***************************************************************************)
(* DataIngestionService                                                    *)
(***************************************************************************)
\* _get_or_create_customer on the customers the transaction sees: the table
\* after the call; both callers pass the external id as the name when the
\* record carries no customer_name
GetOrCreateCustomer(tbl, external_id, plan) ==
    IF \E c \in tbl : c.external_customer_id = external_id
    THEN tbl
    ELSE tbl \cup
         {[id |-> Cardinality(tbl) + 1,
           external_customer_id |-> external_id, name |-> external_id,
           plan |-> IF IsNull(plan) THEN PlanUnknown ELSE Val(plan)]}

CustomersAfterGetOrCreate(external_id, plan) ==
    GetOrCreateCustomer(customers, external_id, plan)

CustomerIdOf(tbl, external_id) ==
    (CHOOSE c \in tbl : c.external_customer_id = external_id).id

\* ingest_usage_data on a batch of one record
ingest_usage_data(D) ==
    /\ AllIdle
    /\ Cardinality(usage_events) < MaxUsageEvents
    /\ \E ext \in D.customers, plan \in D.plans, f \in D.features,
          q \in D.quantities, uc \in D.unit_costs, ts \in D.timestamps :
          LET custs == CustomersAfterGetOrCreate(ext, Some(plan))
          IN  /\ customers' = custs
              /\ usage_events' = usage_events \cup
                    {[id |-> Cardinality(usage_events) + 1,
                      customer_id |-> CustomerIdOf(custs, ext),
                      feature |-> f, quantity |-> q, unit_cost |-> uc,
                      timestamp |-> ts]}
              /\ fresh' = fresh \ {StartOfDay(ts)}
              /\ evaluated' = NULL
              /\ last' = [NoCall EXCEPT !.op = "ingest_usage", !.ret = 1]
    /\ UNCHANGED <<clock, revenue_events, daily_aggregates, insight_flags,
                   now, sess, calls>>

\* the records a revenue batch is made of
RevenueRecords(D) ==
    [customer_id : D.revenue_customers, amount : D.amounts,
     external_id : D.external_ids, timestamp : D.revenue_timestamps]

\* external_id is unique=True: an INSERT of the pending rows fails when one
\* of them repeats the external_id of a stored row or of another pending row
UniqueViolation(visible, pending) ==
    \/ \E i \in DOMAIN pending :
          \E r \in visible : r.external_id = pending[i].external_id
    \/ \E i, j \in DOMAIN pending :
          i # j /\ pending[i].external_id = pending[j].external_id

\* Session.flush() of the pending revenue rows, with the next ids
FlushRevenue(visible, pending) ==
    visible \cup
       {[id |-> Cardinality(visible) + i, customer_id |-> pending[i].customer_id,
         amount |-> pending[i].amount, external_id |-> pending[i].external_id,
         timestamp |-> pending[i].timestamp] : i \in DOMAIN pending}

\* the transaction of one ingest_revenue_data call: the customers and the
\* revenue events its queries see, the revenue rows added but not flushed
\* (autoflush=False: no query sees them), the counter, and whether the
\* transaction is still usable
OpenTransaction ==
    [customers |-> customers, revenue |-> revenue_events, pending |-> <<>>,
     ingested |-> 0, active |-> TRUE]

\* lines 89-119 for one record.  A flush that fails rolls the transaction
\* back and leaves the session unusable until rollback() is called: every
\* later query raises, and the except clause of the loop swallows it.
RevenueRecord(acc, record) ==
    IF ~acc.active THEN acc
    ELSE IF \E r \in acc.revenue : r.external_id = record.external_id THEN acc
    ELSE LET known == \E c \in acc.customers :
                         c.external_customer_id = record.customer_id
             custs == GetOrCreateCustomer(acc.customers, record.customer_id, NULL)
             row == [customer_id |-> CustomerIdOf(custs, record.customer_id),
                     amount |-> record.amount,
                     external_id |-> record.external_id,
                     timestamp |-> record.timestamp]
         IN  IF known
             THEN [acc EXCEPT !.pending = Append(@, row), !.ingested = @ + 1]
             ELSE IF UniqueViolation(acc.revenue, acc.pending)
             THEN [acc EXCEPT !.customers = customers, !.revenue = revenue_events,
                              !.pending = <<>>, !.active = FALSE]
             ELSE [acc EXCEPT !.customers = custs,
                              !.revenue = FlushRevenue(acc.revenue, acc.pending),
                              !.pending = <<row>>, !.ingested = @ + 1]

\* the loop of lines 88-119
RECURSIVE RevenueLoop(_, _)
RevenueLoop(records, acc) ==
    IF records = <<>> THEN acc
    ELSE RevenueLoop(Tail(records), RevenueRecord(acc, Head(records)))

\* ingest_revenue_data on a batch; the commit of line 121 is outside the
\* try of the loop, so an error it raises leaves the call and the session
\* is rolled back
ingest_revenue_data(D) ==
    /\ AllIdle
    /\ \E n \in D.batch_sizes :
          /\ Cardinality(revenue_events) + n <= MaxRevenueEvents
          /\ \E batch \in [1..n -> RevenueRecords(D)] :
                LET acc == RevenueLoop(batch, OpenTransaction)
                IN  IF ~acc.active \/ UniqueViolation(acc.revenue, acc.pending)
                    THEN /\ last' = [NoCall EXCEPT !.op = "ingest_revenue_failed",
                                                   !.result = batch]
                         /\ UNCHANGED <<customers, revenue_events, fresh, evaluated>>
                    ELSE /\ customers' = acc.customers
                         /\ revenue_events' = FlushRevenue(acc.revenue, acc.pending)
                         /\ fresh' = fresh \ {StartOfDay(r.timestamp) :
                                                r \in revenue_events' \ revenue_events}
                         /\ evaluated' = IF revenue_events' = revenue_events
                                         THEN evaluated ELSE NULL
                         /\ last' = [NoCall EXCEPT !.op = "ingest_revenue",
                                                   !.ret = acc.ingested,
                                                   !.result = batch]
    /\ UNCHANGED <<clock, usage_events, daily_aggregates, insight_flags, now,
                   sess, calls>>

(***************************************************************************)
(* AggregationService.materialize_daily_aggregates                         *)
(***************************************************************************)
InWindowInclusive(ts, start_of_day) ==
    ts >= start_of_day /\ ts <= EndOfDay(start_of_day)

\* timestamp >= start_of_day, timestamp < end_of_day
InWindow(ts, start_of_day) ==
    ts >= start_of_day /\ ts < EndOfDay(start_of_day)

UsageInWindowOfAnyDay(start_of_day) == usage_events

UsageInWindow(start_of_day) ==
    {e \in usage_events : InWindow(e.timestamp, start_of_day)}

\* one row of the GROUP BY customer_id query: sum, count, sum of products
CustomerAggregate(cid, start_of_day) ==
    LET es == {e \in UsageInWindow(start_of_day) : e.customer_id = cid}
    IN  [customer_id |-> cid,
         usage_total |-> Sum([e \in es |-> e.quantity], es),
         usage_count |-> Cardinality(es),
         cost_total |-> Sum([e \in es |-> e.quantity * e.unit_cost], es)]

\* one row of the GROUP BY feature query
FeatureAggregate(f, start_of_day) ==
    LET es == {e \in UsageInWindow(start_of_day) : e.feature = f}
    IN  [feature |-> f,
         usage_total |-> Sum([e \in es |-> e.quantity], es),
         usage_count |-> Cardinality(es),
         cost_total |-> Sum([e \in es |-> e.quantity * e.unit_cost], es)]

\* func.sum(RevenueEvent.amount) ... .scalar() or 0.0
CustomerRevenue(cid, start_of_day) ==
    LET rs == {r \in revenue_events :
                 r.customer_id = cid /\ InWindow(r.timestamp, start_of_day)}
    IN  Sum([r \in rs |-> r.amount], rs)

ExistingCustomerRowsNeverMatch(start_of_day, cid) == {}

\* the rows the existence check of the customer loop can see
ExistingCustomerRows(start_of_day, cid) ==
    {a \in daily_aggregates :
        a.date = start_of_day /\ a.customer_id = Some(cid) /\ IsNull(a.feature)}

ExistingFeatureRowsOfAnyDate(start_of_day, f) ==
    {a \in daily_aggregates : IsNull(a.customer_id) /\ a.feature = Some(f)}

\* the rows the existence check of the feature loop can see
ExistingFeatureRows(start_of_day, f) ==
    {a \in daily_aggregates :
        a.date = start_of_day /\ IsNull(a.customer_id) /\ a.feature = Some(f)}

\* .first(): no ORDER BY, the row the scan meets first
First(rows) == CHOOSE a \in rows : \A b \in rows : a.id <= b.id

CustomerOverwriteAdditive(existing, agg, revenue) ==
    [existing EXCEPT !.usage_total = @ + agg.usage_total,
                     !.usage_count = @ + agg.usage_count,
                     !.cost_total = @ + agg.cost_total,
                     !.revenue_total = @ + revenue]

\* the existing row after the four assignments of the customer loop
CustomerOverwrite(existing, agg, revenue) ==
    [existing EXCEPT !.usage_total = agg.usage_total,
                     !.usage_count = agg.usage_count,
                     !.cost_total = agg.cost_total,
                     !.revenue_total = revenue]

FeatureOverwriteKeepsCost(existing, agg) ==
    [existing EXCEPT !.usage_total = agg.usage_total,
                     !.usage_count = agg.usage_count]

\* the existing row after the three assignments of the feature loop
FeatureOverwrite(existing, agg) ==
    [existing EXCEPT !.usage_total = agg.usage_total,
                     !.usage_count = agg.usage_count,
                     !.cost_total = agg.cost_total]

NewCustomerRowBothKeys(start_of_day, agg, revenue) ==
    [date |-> start_of_day, customer_id |-> Some(agg.customer_id),
     feature |-> Some(FeatureList[1]),
     usage_total |-> agg.usage_total, usage_count |-> agg.usage_count,
     revenue_total |-> revenue, cost_total |-> agg.cost_total]

\* DailyAggregate(date=, customer_id=, usage_total=, ..., revenue_total=)
NewCustomerRow(start_of_day, agg, revenue) ==
    [date |-> start_of_day, customer_id |-> Some(agg.customer_id), feature |-> NULL,
     usage_total |-> agg.usage_total, usage_count |-> agg.usage_count,
     revenue_total |-> revenue, cost_total |-> agg.cost_total]

NewFeatureRowWithRevenue(start_of_day, agg) ==
    LET rs == {r \in revenue_events : InWindow(r.timestamp, start_of_day)}
    IN  [date |-> start_of_day, customer_id |-> NULL,
         feature |-> Some(agg.feature),
         usage_total |-> agg.usage_total, usage_count |-> agg.usage_count,
         revenue_total |-> Sum([r \in rs |-> r.amount], rs),
         cost_total |-> agg.cost_total]

\* DailyAggregate(date=, feature=, usage_total=, ...): revenue_total takes
\* the column default 0.0 at INSERT
NewFeatureRow(start_of_day, agg) ==
    [date |-> start_of_day, customer_id |-> NULL, feature |-> Some(agg.feature),
     usage_total |-> agg.usage_total, usage_count |-> agg.usage_count,
     revenue_total |-> 0, cost_total |-> agg.cost_total]

\* The unit of work records, for a loaded row, the columns whose value
\* differs from the loaded one; flush() writes only those.
MetricColumns == {"usage_total", "usage_count", "revenue_total", "cost_total"}
Changes(loaded, updated) ==
    LET cols == {c \in MetricColumns : loaded[c] # updated[c]}
    IN  [id |-> loaded.id, set |-> [c \in cols |-> updated[c]]]

OverwrittenCounted(acc, ch) ==
    [acc EXCEPT !.dirty = IF DOMAIN ch.set = {} THEN @ ELSE @ \cup {ch},
                !.created = @ + 1]

\* an existing row was assigned its new values: it is dirty when a value
\* changed, and created is left alone
Overwritten(acc, ch) ==
    [acc EXCEPT !.dirty = IF DOMAIN ch.set = {} THEN @ ELSE @ \cup {ch}]

\* self.db.add(agg); created += 1
Added(acc, row) ==
    [acc EXCEPT !.new = Append(@, row), !.created = @ + 1]

\* the customer loop, lines 51-87: <<pending rows, dirty rows, created>>
RECURSIVE CustomerLoop(_, _, _)
CustomerLoop(cids, start_of_day, acc) ==
    IF cids = <<>> THEN acc
    ELSE LET agg == CustomerAggregate(Head(cids), start_of_day)
             revenue == CustomerRevenue(Head(cids), start_of_day)
             found == ExistingCustomerRows(start_of_day, Head(cids))
             next ==
                IF found # {}
                THEN LET ch == Changes(First(found),
                                       CustomerOverwrite(First(found), agg, revenue))
                     IN  Overwritten(acc, ch)
                ELSE Added(acc, NewCustomerRow(start_of_day, agg, revenue))
         IN  CustomerLoop(Tail(cids), start_of_day, next)

\* the feature loop, lines 102-124
RECURSIVE FeatureLoop(_, _, _)
FeatureLoop(fs, start_of_day, acc) ==
    IF fs = <<>> THEN acc
    ELSE LET agg == FeatureAggregate(Head(fs), start_of_day)
             found == ExistingFeatureRows(start_of_day, Head(fs))
             next ==
                IF found # {}
                THEN LET ch == Changes(First(found), FeatureOverwrite(First(found), agg))
                     IN  Overwritten(acc, ch)
                ELSE Added(acc, NewFeatureRow(start_of_day, agg))
         IN  FeatureLoop(Tail(fs), start_of_day, next)

CustomerGroupsWithRevenue(start_of_day) ==
    SortedIds({e.customer_id : e \in UsageInWindow(start_of_day)}
              \cup {r.customer_id : r \in {x \in revenue_events :
                                              InWindow(x.timestamp, start_of_day)}})

\* the groups of the two GROUP BY queries, in key order
CustomerGroups(start_of_day) ==
    SortedIds({e.customer_id : e \in UsageInWindow(start_of_day)})

FeatureGroups(start_of_day) ==
    SelectSeq(FeatureList,
              LAMBDA f : \E e \in UsageInWindow(start_of_day) : e.feature = f)

\* Session.flush() of the aggregate rows: UPDATE the dirty rows by primary
\* key, INSERT the pending rows with the next ids
FlushAggregates(tbl, s) ==
    LET updated ==
          {IF \E ch \in s.dirty : ch.id = a.id
           THEN LET ch == CHOOSE c \in s.dirty : c.id = a.id
                IN  [col \in DOMAIN a |->
                        IF col \in DOMAIN ch.set THEN ch.set[col] ELSE a[col]]
           ELSE a : a \in tbl}
        base == Cardinality(tbl)
        inserted ==
          {[id |-> base + i, date |-> s.new[i].date,
            customer_id |-> s.new[i].customer_id, feature |-> s.new[i].feature,
            usage_total |-> s.new[i].usage_total,
            usage_count |-> s.new[i].usage_count,
            revenue_total |-> s.new[i].revenue_total,
            cost_total |-> s.new[i].cost_total] : i \in 1..Len(s.new)}
    IN  updated \cup inserted

AfterCloseFlushes(tbl, flushed) == flushed

\* Session.close() without commit: the transaction is rolled back and the
\* pending state of the session is discarded
AfterClose(tbl, flushed) == tbl

\* lines 33-87: the customer query and the customer loop
MatCustomers(s, D, concurrent) ==
    /\ sess[s].pc = "idle"
    /\ concurrent \/ AllIdle
    /\ concurrent => calls < MaxCalls
    /\ \E date \in D.dates :
          LET d == StartOfDay(date)
          IN  sess' = [sess EXCEPT ![s] =
                  [CustomerLoop(CustomerGroups(d), d, IdleSession)
                      EXCEPT !.pc = "mat_features", !.date = d]]
    /\ calls' = IF concurrent THEN calls + 1 ELSE calls
    /\ UNCHANGED <<tables, now, fresh, evaluated, last>>

\* lines 89-124: the feature query and the feature loop
MatFeatures(s) ==
    /\ sess[s].pc = "mat_features"
    /\ sess' = [sess EXCEPT ![s] =
          [FeatureLoop(FeatureGroups(sess[s].date), sess[s].date, sess[s])
              EXCEPT !.pc = "mat_commit"]]
    /\ UNCHANGED <<clock, tables, now, calls, fresh, evaluated, last>>

\* lines 126-127: commit and return
MatCommit(s) ==
    /\ sess[s].pc = "mat_commit"
    /\ daily_aggregates' = FlushAggregates(daily_aggregates, sess[s])
    /\ sess' = [t \in SessionIds |->
                IF t = s THEN IdleSession
                ELSE IF sess[t].pc = "mat_commit" /\ sess[t].date = sess[s].date
                     THEN [sess[t] EXCEPT !.raced = TRUE]
                     ELSE sess[t]]
    /\ fresh' = fresh \cup {sess[s].date}
    /\ evaluated' = IF daily_aggregates' = daily_aggregates THEN evaluated ELSE NULL
    /\ last' = [op |-> "materialize", ret |-> sess[s].created,
                date |-> sess[s].date, repeat |-> sess[s].date \in fresh,
                raced |-> sess[s].raced,
                result |-> <<>>]
    /\ UNCHANGED <<clock, customers, usage_events, revenue_events,
                   insight_flags, now, calls>>

\* an error raised by a query or by the commit: the caller logs it and
\* closes the session (SchedulerService.materialize_aggregates, get_db)
MatFail(s) ==
    /\ sess[s].pc \in {"mat_features", "mat_commit"}
    /\ daily_aggregates' =
          AfterClose(daily_aggregates, FlushAggregates(daily_aggregates, sess[s]))
    /\ sess' = [sess EXCEPT ![s] = IdleSession]
    /\ last' = [op |-> "materialize_failed", ret |-> 0, date |-> sess[s].date,
                repeat |-> sess[s].new # <<>> \/ sess[s].dirty # {}, raced |-> FALSE,
                result |-> <<>>]
    /\ evaluated' = IF daily_aggregates' = daily_aggregates THEN evaluated ELSE NULL
    /\ UNCHANGED <<clock, customers, usage_events, revenue_events,
                   insight_flags, now,
                   calls, fresh>>

(***************************************************************************)
(* The aggregation specification: ingestion and materialization, one       *)
(* call at a time.                                                         *)
(***************************************************************************)
DomMat ==
    [batch_sizes |-> {1}, customers |-> {"acme", "globex"}, plans |-> {PlanPro},
     features |-> {"chat", "embed"}, quantities |-> {2}, unit_costs |-> {3},
     timestamps |-> {Noon(0), Midnight(1)}, revenue_customers |-> {"acme"},
     revenue_timestamps |-> {Noon(0)}, amounts |-> {5},
     external_ids |-> {"in_1"}, dates |-> {Noon(0), Midnight(1)},
     nows |-> {Noon(1)}]

IngestUsage == ingest_usage_data(DomMat)
IngestRevenue == ingest_revenue_data(DomMat)
Materialize == MatCustomers(1, DomMat, FALSE) /\ UNCHANGED clock
MaterializeFeatures == MatFeatures(1)
MaterializeCommit == MatCommit(1)
MaterializeFail == MatFail(1)

NextMat ==
    \/ IngestUsage
    \/ IngestRevenue
    \/ Materialize
    \/ MaterializeFeatures
    \/ MaterializeCommit
    \/ MaterializeFail

SpecMat == Init /\ [][NextMat]_vars

(***************************************************************************)
(* AggregationService.compute_insights                                     *)
(***************************************************************************)
UpperCase == <<"A", "B", "C", "D", "E", "F", "G", "H", "I", "J", "K", "L", "M",
               "N", "O", "P", "Q", "R", "S", "T", "U", "V", "W", "X", "Y", "Z">>
LowerCase == <<"a", "b", "c", "d", "e", "f", "g", "h", "i", "j", "k", "l", "m",
               "n", "o", "p", "q", "r", "s", "t", "u", "v", "w", "x", "y", "z">>
Fold(ch) ==
    IF \E i \in 1..Len(UpperCase) : UpperCase[i] = ch
    THEN LowerCase[CHOOSE i \in 1..Len(UpperCase) : UpperCase[i] = ch]
    ELSE ch

\* str LIKE '%pattern%' on the default SQLite engine, whose LIKE ignores
\* the case of ASCII letters
Like(str, pattern) ==
    \E i \in 1..(Len(str) - Len(pattern) + 1) :
        \A j \in 1..Len(pattern) : Fold(str[i + j - 1]) = Fold(pattern[j])

Ids(tbl) == {f.id : f \in tbl}

ActiveFlagsOnlyCustomerless(tbl) ==
    {f \in tbl : f.is_active = 1 /\ IsNull(f.customer_id)}

\* filter(InsightFlag.is_active == 1)
ActiveFlags(tbl) == {f \in tbl : f.is_active = 1}

\* Customer JOIN UsageEvent LEFT OUTER JOIN RevenueEvent for one customer:
\* one joined row per pair (usage event, revenue event), or per usage event
\* with a NULL revenue side when the customer has no revenue event
JoinedRows(c) ==
    LET us == {u \in usage_events : u.customer_id = c.id}
        rs == {r \in revenue_events : r.customer_id = c.id}
    IN  IF rs = {} THEN {<<u, NULL>> : u \in us}
        ELSE {<<u, Some(r)>> : u \in us, r \in rs}

\* func.sum(UsageEvent.quantity) over the joined rows of the group
JoinedUsage(c) ==
    LET rows == JoinedRows(c)
    IN  Sum([j \in rows |-> j[1].quantity], rows)

\* func.sum(RevenueEvent.amount) over the joined rows: NULL when every
\* revenue side is NULL
JoinedRevenue(c) ==
    LET rows == JoinedRows(c)
    IN  IF \A j \in rows : IsNull(j[2]) THEN NULL
        ELSE Some(Sum([j \in rows |-> Val(j[2]).amount], rows))

Coalesce(o, d) == IF IsNull(o) THEN d ELSE Val(o)

HighUsageCustomersSkipFlagged ==
    {c \in customers :
        /\ JoinedRows(c) # {}
        /\ JoinedUsage(c) > HighUsageThreshold
        /\ Coalesce(JoinedRevenue(c), 0) < LowRevenueThreshold
        /\ ~\E f \in insight_flags : f.customer_id = Some(c.id)}

\* the groups that pass the HAVING clause of insight 1
HighUsageCustomers ==
    {c \in customers :
        /\ JoinedRows(c) # {}
        /\ JoinedUsage(c) > HighUsageThreshold
        /\ Coalesce(JoinedRevenue(c), 0) < LowRevenueThreshold}

\* lines 163-172
LowRevenueFlag(c) ==
    [customer_id |-> Some(c.id), insight_type |-> "LOW_REVENUE",
     severity |-> "CRITICAL", category |-> "customer",
     message |-> <<c.name, JoinedUsage(c), Coalesce(JoinedRevenue(c), 0)>>]

\* datetime.utcnow() - timedelta(days=30)
Last30Days(t) == t - WindowDays * TicksPerDay

\* the rows insight 2 sums for one feature
FeatureWindowRows(f, t) ==
    {a \in daily_aggregates :
        ~IsNull(a.feature) /\ a.feature = Some(f) /\ a.date >= Last30Days(t)}

FeatureTotalCost(f, t) ==
    LET rows == FeatureWindowRows(f, t)
    IN  Sum([a \in rows |-> a.cost_total], rows)

FeatureTotalRevenue(f, t) ==
    LET rows == FeatureWindowRows(f, t)
    IN  Sum([a \in rows |-> a.revenue_total], rows)

\* the groups that pass the HAVING clause of insight 2, in key order
UnprofitableFeatures(t) ==
    SelectSeq(FeatureList,
              LAMBDA f : /\ FeatureWindowRows(f, t) # {}
                         /\ FeatureTotalCost(f, t) > FeatureTotalRevenue(f, t))

SeverityOfLossInclusive(loss) ==
    IF loss >= CriticalLossThreshold THEN "CRITICAL" ELSE "WARNING"

\* SeverityType.CRITICAL if loss > 1000 else SeverityType.WARNING
SeverityOfLoss(loss) ==
    IF loss > CriticalLossThreshold THEN "CRITICAL" ELSE "WARNING"

\* lines 195-204
UnprofitableFeatureFlag(f, t) ==
    LET loss == FeatureTotalCost(f, t) - FeatureTotalRevenue(f, t)
    IN  [customer_id |-> NULL, insight_type |-> "UNPROFITABLE_FEATURE",
         severity |-> SeverityOfLoss(loss), category |-> "feature",
         message |-> <<f, FeatureTotalCost(f, t), FeatureTotalRevenue(f, t)>>]

\* query(Customer).filter(Customer.plan.like('%legacy%')).count()
LegacyCustomers ==
    Cardinality({c \in customers : Like(c.plan, LegacyPattern)})

LegacyPlanFlagsPerCustomer(legacy_customers) ==
    [i \in 1..legacy_customers |->
        [customer_id |-> NULL, insight_type |-> "LEGACY_PLAN",
         severity |-> "WARNING", category |-> "usage",
         message |-> <<"legacy", legacy_customers, 0>>]]

\* lines 213-224: the flags insight 3 adds
LegacyPlanFlags(legacy_customers) ==
    IF legacy_customers > 0
    THEN <<[customer_id |-> NULL, insight_type |-> "LEGACY_PLAN",
            severity |-> "WARNING", category |-> "usage",
            message |-> <<"legacy", legacy_customers, 0>>]>>
    ELSE <<>>

\* Session.flush() and commit of a compute_insights transaction: the bulk
\* UPDATE of the rows it deactivated, then the INSERT of the added flags
\* with the next ids; created_at takes its default at INSERT
FlushFlags(tbl, s, t) ==
    LET updated ==
          {IF \E d \in s.deactivated : d.id = f.id
           THEN [f EXCEPT !.is_active = 0,
                          !.resolved_at =
                              Some((CHOOSE d \in s.deactivated : d.id = f.id).resolved_at)]
           ELSE f : f \in tbl}
        base == Cardinality(tbl)
        inserted ==
          {[id |-> base + i,
            customer_id |-> s.new_flags[i].customer_id,
            insight_type |-> s.new_flags[i].insight_type,
            severity |-> s.new_flags[i].severity,
            category |-> s.new_flags[i].category,
            message |-> s.new_flags[i].message,
            is_active |-> 1, created_at |-> t, resolved_at |-> NULL]
             : i \in 1..Len(s.new_flags)}
    IN  updated \cup inserted

DeactivatedUnfiltered(tbl, t) == {[id |-> f.id, resolved_at |-> t] : f \in tbl}

\* filter(is_active == 1).update({'is_active': 0, 'resolved_at': utcnow()}):
\* the rows the UPDATE matches, with the resolved_at it gives them
Deactivated(tbl, t) == {[id |-> f.id, resolved_at |-> t] : f \in ActiveFlags(tbl)}

\* the flags another compute_insights in progress has updated and not yet
\* committed: the store keeps them locked until that transaction ends
LockedFlags(s) ==
    UNION {{d.id : d \in sess[t].deactivated} :
              t \in {u \in SessionIds \ {s} :
                        sess[u].pc \in {"ci_rule1", "ci_rule2", "ci_rule3",
                                        "ci_commit"}}}

\* lines 136-139: the bulk UPDATE, executed in the open transaction.  With
\* calls one at a time nothing is locked.  With two sessions on a store
\* that lets transactions write side by side (a server database given in
\* DATABASE_URL, default isolation), an UPDATE that meets a locked row
\* waits for the other transaction to end; on the default SQLite file the
\* whole statement waits for the other transaction's commit, which is the
\* behaviour where this step follows that commit.
CiDeactivate(s, concurrent) ==
    /\ sess[s].pc = "idle"
    /\ concurrent \/ AllIdle
    /\ calls < (IF concurrent THEN MaxComputeCalls ELSE MaxCalls)
    /\ LET matched == Deactivated(insight_flags, now)
           blocked == \E d \in matched : d.id \in LockedFlags(s)
       IN  sess' = [sess EXCEPT ![s] =
              [IdleSession EXCEPT
                  !.pc = IF blocked THEN "ci_blocked" ELSE "ci_rule1",
                  !.deactivated = matched]]
    /\ calls' = calls + 1
    /\ UNCHANGED <<tables, now, fresh, evaluated, last>>

\* the UPDATE resumes when the rows it waited for are released: it checks
\* is_active = 1 again on the committed version of each row it matched, and
\* does not see rows inserted after it started
CiResume(s) ==
    /\ sess[s].pc = "ci_blocked"
    /\ \A d \in sess[s].deactivated : d.id \notin LockedFlags(s)
    /\ sess' = [sess EXCEPT ![s] =
          [@ EXCEPT !.pc = "ci_rule1",
                    !.deactivated =
                       {d \in @ : d.id \in Ids(ActiveFlags(insight_flags))}]]
    /\ UNCHANGED <<clock, tables, now, calls, fresh, evaluated, last>>

\* lines 143-174
CiRule1(s) ==
    /\ sess[s].pc = "ci_rule1"
    /\ LET ids == SortedIds({c.id : c \in HighUsageCustomers})
           flags == [i \in 1..Len(ids) |->
                        LowRevenueFlag(CHOOSE c \in customers : c.id = ids[i])]
       IN  sess' = [sess EXCEPT ![s] =
              [@ EXCEPT !.pc = "ci_rule2",
                        !.new_flags = @ \o flags,
                        !.insights_created = @ + Len(flags)]]
    /\ UNCHANGED <<clock, tables, now, calls, fresh, evaluated, last>>

\* lines 176-206
CiRule2(s) ==
    /\ sess[s].pc = "ci_rule2"
    /\ LET fs == UnprofitableFeatures(now)
           flags == [i \in 1..Len(fs) |-> UnprofitableFeatureFlag(fs[i], now)]
       IN  sess' = [sess EXCEPT ![s] =
              [@ EXCEPT !.pc = "ci_rule3",
                        !.new_flags = @ \o flags,
                        !.insights_created = @ + Len(flags)]]
    /\ UNCHANGED <<clock, tables, now, calls, fresh, evaluated, last>>

\* lines 208-224
CiRule3(s) ==
    /\ sess[s].pc = "ci_rule3"
    /\ LET flags == LegacyPlanFlags(LegacyCustomers)
       IN  sess' = [sess EXCEPT ![s] =
              [@ EXCEPT !.pc = "ci_commit",
                        !.new_flags = @ \o flags,
                        !.insights_created = @ + Len(flags)]]
    /\ UNCHANGED <<clock, tables, now, calls, fresh, evaluated, last>>

\* lines 226-227: commit and return
CiCommit(s) ==
    /\ sess[s].pc = "ci_commit"
    /\ insight_flags' = FlushFlags(insight_flags, sess[s], now)
    /\ sess' = [sess EXCEPT ![s] = IdleSession]
    /\ evaluated' = Some(sess[s].insights_created)
    /\ last' = [op |-> "compute", ret |-> sess[s].insights_created, date |-> 0,
                repeat |-> ~IsNull(evaluated), raced |-> FALSE,
                result |-> <<>>]
    /\ UNCHANGED <<clock, customers, usage_events, revenue_events,
                   daily_aggregates, now,
                   calls, fresh>>

\* an error raised after the deactivation step: the caller logs it and
\* closes the session (SchedulerService.compute_insights, get_db)
CiFail(s) ==
    /\ sess[s].pc \in {"ci_rule1", "ci_rule2", "ci_rule3", "ci_commit"}
    /\ insight_flags' =
          AfterClose(insight_flags, FlushFlags(insight_flags, sess[s], now))
    /\ sess' = [sess EXCEPT ![s] = IdleSession]
    /\ evaluated' = IF insight_flags' = insight_flags THEN evaluated ELSE NULL
    /\ last' = [op |-> "compute_failed", ret |-> 0, date |-> 0,
                repeat |-> sess[s].deactivated # {}, raced |-> FALSE,
                result |-> <<>>]
    /\ UNCHANGED <<clock, customers, usage_events, revenue_events,
                   daily_aggregates, now,
                   calls, fresh>>

\* the clock moves on between two calls
Tick(D) ==
    /\ AllIdle
    /\ \E t \in D.nows : t > now /\ now' = t
    /\ evaluated' = NULL
    /\ last' = [NoCall EXCEPT !.op = "tick"]
    /\ clock' = ClockAt(now')
    /\ UNCHANGED <<tables, sess, calls, fresh>>

(***************************************************************************)
(* AggregationService.get_active_insights                                  *)
(***************************************************************************)
\* Column(Enum(SeverityType)): the column holds the member's name as a
\* string, and ORDER BY compares the strings
SeverityStored ==
    [INFO |-> <<"I", "N", "F", "O">>,
     WARNING |-> <<"W", "A", "R", "N", "I", "N", "G">>,
     CRITICAL |-> <<"C", "R", "I", "T", "I", "C", "A", "L">>]

\* insight.severity.value
SeverityValue == [INFO |-> "info", WARNING |-> "warning", CRITICAL |-> "critical"]

CharRank(ch) == CHOOSE i \in 1..Len(UpperCase) : UpperCase[i] = ch

\* a < b as the database compares two strings
RECURSIVE StringLess(_, _)
StringLess(a, b) ==
    IF b = <<>> THEN FALSE
    ELSE IF a = <<>> THEN TRUE
    ELSE IF Head(a) = Head(b) THEN StringLess(Tail(a), Tail(b))
    ELSE CharRank(Head(a)) < CharRank(Head(b))

\* order_by(InsightFlag.severity.desc(), ...): a sorts before b
SeverityDesc(a, b) ==
    StringLess(SeverityStored[b.severity], SeverityStored[a.severity])

\* order_by(InsightFlag.severity.desc(), InsightFlag.created_at.desc())
OrderedBefore(a, b) ==
    \/ SeverityDesc(a, b)
    \/ a.severity = b.severity /\ a.created_at > b.created_at

\* the orders a query may return the rows of S in: rows the ORDER BY does
\* not tell apart come in any order
Orderings(S) ==
    {rows \in [1..Cardinality(S) -> S] :
        /\ \A i, j \in 1..Cardinality(S) : i # j => rows[i] # rows[j]
        /\ \A i, j \in 1..Cardinality(S) : i < j => ~OrderedBefore(rows[j], rows[i])}

\* lines 312-322: the dictionary returned for a flag
InsightDict(f) ==
    [id |-> f.id, type |-> SeverityValue[f.severity], category |-> f.category,
     description |-> f.message]

get_active_insights_marking_read ==
    /\ AllIdle
    /\ \E rows \in Orderings(ActiveFlags(insight_flags)) :
          last' = [NoCall EXCEPT !.op = "get_active_insights",
                                 !.result = [i \in 1..Len(rows) |-> InsightDict(rows[i])]]
    /\ insight_flags' = {[f EXCEPT !.is_active = 0] : f \in insight_flags}
    /\ UNCHANGED <<clock, customers, usage_events, revenue_events,
                   daily_aggregates, now, sess, calls, fresh, evaluated>>

get_active_insights ==
    /\ AllIdle
    /\ \E rows \in Orderings(ActiveFlags(insight_flags)) :
          last' = [NoCall EXCEPT !.op = "get_active_insights",
                                 !.result = [i \in 1..Len(rows) |-> InsightDict(rows[i])]]
    /\ UNCHANGED <<clock, tables, now, sess, calls, fresh, evaluated>>

(***************************************************************************)
(* AggregationService.get_dashboard_data                                   *)
(***************************************************************************)
\* Python's a / b on floats: raises ZeroDivisionError when b is 0, and is
\* the exact quotient num / den otherwise
Ratio(a, b) == [raised |-> b = 0, num |-> a, den |-> b]

\* Python's (v or default) on a number
Or(v, default) == IF v = 0 THEN default ELSE v

\* DailyAggregate.date >= start_dt, DailyAggregate.date <= end_dt
RowsBetween(start_dt, end_dt) ==
    {a \in daily_aggregates : a.date >= start_dt /\ a.date <= end_dt}

CustomerScopedOrNot(rows) == rows

\* DailyAggregate.customer_id.isnot(None)
CustomerScoped(rows) == {a \in rows : ~IsNull(a.customer_id)}

\* DailyAggregate.feature.isnot(None)
FeatureScoped(rows) == {a \in rows : ~IsNull(a.feature)}

\* lines 238-249: GROUP BY date ORDER BY date over the customer rows
TimeSeriesQuery(start_dt, end_dt) ==
    LET rows == CustomerScoped(RowsBetween(start_dt, end_dt))
        dates == SortedIds({a.date : a \in rows})
    IN  [i \in 1..Len(dates) |->
            LET g == {a \in rows : a.date = dates[i]}
            IN  [date |-> dates[i],
                 usage_total |-> Sum([a \in g |-> a.usage_total], g),
                 cost_total |-> Sum([a \in g |-> a.cost_total], g),
                 revenue_total |-> Sum([a \in g |-> a.revenue_total], g)]]

FeatureMetricsOfEvents(start_dt, end_dt) ==
    LET es == {e \in usage_events :
                  e.timestamp >= start_dt /\ e.timestamp <= end_dt}
        fs == SelectSeq(FeatureList, LAMBDA f : \E e \in es : e.feature = f)
    IN  [i \in 1..Len(fs) |->
            LET g == {e \in es : e.feature = fs[i]}
            IN  [feature |-> fs[i],
                 usage_count |-> Sum([e \in g |-> e.quantity], g),
                 total_cost |-> Sum([e \in g |-> e.quantity * e.unit_cost], g),
                 revenue |-> 0]]

\* lines 252-263: GROUP BY feature over the feature rows, in key order
FeatureMetricsQuery(start_dt, end_dt) ==
    LET rows == FeatureScoped(RowsBetween(start_dt, end_dt))
        fs == SelectSeq(FeatureList, LAMBDA f : \E a \in rows : a.feature = Some(f))
    IN  [i \in 1..Len(fs) |->
            LET g == {a \in rows : a.feature = Some(fs[i])}
            IN  [feature |-> fs[i],
                 usage_count |-> Sum([a \in g |-> a.usage_total], g),
                 total_cost |-> Sum([a \in g |-> a.cost_total], g),
                 revenue |-> Sum([a \in g |-> a.revenue_total], g)]]

\* sum(x for ts in time_series)
SeqSum(s) == Sum(s, DOMAIN s)

FeatureProfitMarginUnguarded(revenue, total_cost) ==
    Ratio((revenue - total_cost) * 100, revenue)

\* line 297: ((fm.revenue or 0) - fm.total_cost) / (fm.revenue or 1) * 100
FeatureProfitMargin(revenue, total_cost) ==
    Ratio((Or(revenue, 0) - total_cost) * 100, Or(revenue, 1))

\* line 269: (total_profit / total_revenue * 100) if total_revenue > 0 else 0
SummaryProfitMargin(total_profit, total_revenue) ==
    IF total_revenue > 0 THEN Ratio(total_profit * 100, total_revenue)
    ELSE Ratio(0, 1)

SummaryOfFeatureMetrics(time_series, feature_metrics) ==
    LET total_usage_cost ==
           SeqSum([i \in DOMAIN feature_metrics |-> feature_metrics[i].total_cost])
        total_revenue ==
           SeqSum([i \in DOMAIN feature_metrics |-> feature_metrics[i].revenue])
    IN  [total_usage_cost |-> total_usage_cost,
         total_revenue |-> total_revenue,
         total_profit |-> total_revenue - total_usage_cost,
         profit_margin_percentage |->
            SummaryProfitMargin(total_revenue - total_usage_cost, total_revenue)]

\* lines 266-281: the summary
Summary(time_series, feature_metrics) ==
    LET total_usage_cost ==
           SeqSum([i \in DOMAIN time_series |-> time_series[i].cost_total])
        total_revenue ==
           SeqSum([i \in DOMAIN time_series |-> time_series[i].revenue_total])
    IN  [total_usage_cost |-> total_usage_cost,
         total_revenue |-> total_revenue,
         total_profit |-> total_revenue - total_usage_cost,
         profit_margin_percentage |->
            SummaryProfitMargin(total_revenue - total_usage_cost, total_revenue)]

\* lines 271-301: the returned dictionary
DashboardData(start_dt, end_dt) ==
    LET time_series == TimeSeriesQuery(start_dt, end_dt)
        feature_metrics == FeatureMetricsQuery(start_dt, end_dt)
    IN  [start |-> start_dt, end |-> end_dt,
         summary |-> Summary(time_series, feature_metrics),
         time_series |->
            [i \in DOMAIN time_series |->
                [date |-> time_series[i].date,
                 usage_cost |-> time_series[i].cost_total,
                 revenue |-> time_series[i].revenue_total,
                 profit |-> time_series[i].revenue_total - time_series[i].cost_total]],
         feature_metrics |->
            [i \in DOMAIN feature_metrics |->
                [feature_name |-> feature_metrics[i].feature,
                 usage_count |-> feature_metrics[i].usage_count,
                 total_cost |-> feature_metrics[i].total_cost,
                 revenue |-> Or(feature_metrics[i].revenue, 0),
                 profit_margin |->
                    FeatureProfitMargin(feature_metrics[i].revenue,
                                        feature_metrics[i].total_cost)]]]

\* a division that raised makes the call raise
Raised(data) ==
    \/ data.summary.profit_margin_percentage.raised
    \/ \E i \in DOMAIN data.feature_metrics : data.feature_metrics[i].profit_margin.raised

get_dashboard_data(D) ==
    /\ AllIdle
    /\ \E r \in D.ranges :
          LET data == DashboardData(r[1], r[2])
          IN  last' = IF Raised(data)
                      THEN [NoCall EXCEPT !.op = "get_dashboard_data_failed"]
                      ELSE [NoCall EXCEPT !.op = "get_dashboard_data",
                                          !.result = data]
    /\ UNCHANGED <<clock, tables, now, sess, calls, fresh, evaluated>>

(***************************************************************************)
(* The insight specification: ingestion of usage, materialization and      *)
(* insight computation, one call at a time.                                *)
(***************************************************************************)
DomInsight ==
    [batch_sizes |-> {1}, customers |-> {"acme"}, plans |-> {PlanLegacy},
     features |-> {"chat", "embed"}, quantities |-> {500, 6000},
     unit_costs |-> {0, 1}, timestamps |-> {Noon(1)},
     revenue_customers |-> {"acme"}, revenue_timestamps |-> {Noon(1)},
     amounts |-> {40},
     external_ids |-> {"in_1"}, dates |-> {Noon(1)}, nows |-> {Noon(1)}]

InsightIngestUsage == ingest_usage_data(DomInsight)
InsightMaterialize == MatCustomers(1, DomInsight, FALSE) /\ UNCHANGED clock
ComputeInsights == CiDeactivate(1, FALSE) /\ UNCHANGED clock
ComputeRule1 == CiRule1(1)
ComputeRule2 == CiRule2(1)
ComputeRule3 == CiRule3(1)
ComputeCommit == CiCommit(1)
ComputeFail == CiFail(1)

NextInsight ==
    \/ InsightIngestUsage
    \/ InsightMaterialize
    \/ MaterializeFeatures
    \/ MaterializeCommit
    \/ ComputeInsights
    \/ ComputeRule1
    \/ ComputeRule2
    \/ ComputeRule3
    \/ ComputeCommit
    \/ ComputeFail

SpecInsight == Init /\ [][NextInsight]_vars

(***************************************************************************)
(* The customer-rule specification: ingestion of usage and revenue and     *)
(* insight computation, one call at a time.                                *)
(***************************************************************************)
DomCustomer ==
    [batch_sizes |-> {1}, customers |-> {"acme", "globex"}, plans |-> {PlanPro},
     features |-> {"chat"}, quantities |-> {5000, 6000, 12000},
     unit_costs |-> {0}, timestamps |-> {Noon(1)},
     revenue_customers |-> {"acme", "globex"},
     revenue_timestamps |-> {Noon(1)}, amounts |-> {40, 60},
     external_ids |-> {"in_1", "in_2"}, dates |-> {Noon(1)},
     nows |-> {Noon(1)}]

CustomerIngestUsage == ingest_usage_data(DomCustomer)
CustomerIngestRevenue == ingest_revenue_data(DomCustomer)

NextCustomer ==
    \/ CustomerIngestUsage
    \/ CustomerIngestRevenue
    \/ ComputeInsights
    \/ ComputeRule1
    \/ ComputeRule2
    \/ ComputeRule3
    \/ ComputeCommit

SpecCustomer == Init /\ [][NextCustomer]_vars

(***************************************************************************)
(* The legacy-plan specification: customers created on several plans and   *)
(* insight computation, one call at a time.                                *)
(***************************************************************************)
DomLegacy ==
    [batch_sizes |-> {1}, customers |-> {"acme", "globex"}, plans |-> {PlanPro, PlanLegacyCaps},
     features |-> {"chat"}, quantities |-> {6000}, unit_costs |-> {0},
     timestamps |-> {Noon(1)}, revenue_customers |-> {"acme"},
     revenue_timestamps |-> {Noon(1)}, amounts |-> {40},
     external_ids |-> {"in_1"}, dates |-> {Noon(1)}, nows |-> {Noon(1)}]

LegacyIngestUsage == ingest_usage_data(DomLegacy)

NextLegacy ==
    \/ LegacyIngestUsage
    \/ ComputeInsights
    \/ ComputeRule1
    \/ ComputeRule2
    \/ ComputeRule3
    \/ ComputeCommit

SpecLegacy == Init /\ [][NextLegacy]_vars

(***************************************************************************)
(* The retrieval specification: the legacy-plan specification with the     *)
(* query for the active insights.                                          *)
(***************************************************************************)
GetActiveInsights == get_active_insights

NextRetrieve ==
    \/ LegacyIngestUsage
    \/ ComputeInsights
    \/ ComputeRule1
    \/ ComputeRule2
    \/ ComputeRule3
    \/ ComputeCommit
    \/ GetActiveInsights

SpecRetrieve == Init /\ [][NextRetrieve]_vars

(***************************************************************************)
(* The dashboard specification: ingestion, materialization and the         *)
(* dashboard query, one call at a time.                                    *)
(***************************************************************************)
DomDash ==
    [batch_sizes |-> {1}, customers |-> {"acme", "globex"}, plans |-> {PlanPro},
     features |-> {"chat"}, quantities |-> {2}, unit_costs |-> {3},
     timestamps |-> {Noon(0), Midnight(1)}, revenue_customers |-> {"acme"},
     revenue_timestamps |-> {Noon(0)}, amounts |-> {5},
     external_ids |-> {"in_1"}, dates |-> {Noon(0), Midnight(1)},
     nows |-> {Noon(1)},
     ranges |-> {<<Midnight(0), Midnight(0)>>, <<Midnight(0), Midnight(1)>>,
                 <<Noon(0), Midnight(1)>>}]

DashIngestUsage == ingest_usage_data(DomDash)
DashIngestRevenue == ingest_revenue_data(DomDash)
DashMaterialize == MatCustomers(1, DomDash, FALSE) /\ UNCHANGED clock
GetDashboardData == get_dashboard_data(DomDash)

NextDash ==
    \/ DashIngestUsage
    \/ DashIngestRevenue
    \/ DashMaterialize
    \/ MaterializeFeatures
    \/ MaterializeCommit
    \/ GetDashboardData

SpecDash == Init /\ [][NextDash]_vars

(***************************************************************************)
(* The margin specification: the two profit margins of the dashboard as    *)
(* functions of the summed revenue and the summed cost they are given.     *)
(***************************************************************************)
MarginRevenues == {-20, 0, 10, 25, 50, 100, 200}
MarginCosts == {0, 10, 25, 50, 75, 100, 150, 200}

InitMargin ==
    /\ customers = {}
    /\ usage_events = {}
    /\ revenue_events = {}
    /\ daily_aggregates = {}
    /\ insight_flags = {}
    /\ now = Noon(1)
    /\ sess = [s \in SessionIds |-> IdleSession]
    /\ calls = 0
    /\ fresh = {}
    /\ evaluated = NULL
    /\ clock = ClockAt(Noon(1))
    /\ \E revenue \in MarginRevenues, total_cost \in MarginCosts :
          last = [NoCall EXCEPT !.op = "sums",
                     !.result = [revenue |-> revenue, total_cost |-> total_cost]]

\* lines 269 and 297 on the sums of one feature, taken also as the totals
ProfitMargins ==
    /\ last.op = "sums"
    /\ LET revenue == last.result.revenue
           total_cost == last.result.total_cost
           feature == FeatureProfitMargin(revenue, total_cost)
           summary == SummaryProfitMargin(revenue - total_cost, revenue)
       IN  last' = [NoCall EXCEPT !.op = "margins",
                       !.result = [revenue |-> revenue, total_cost |-> total_cost,
                                   profit_margin |-> feature,
                                   profit_margin_percentage |-> summary]]
    /\ UNCHANGED <<clock, tables, now, sess, calls, fresh, evaluated>>

NextMargin == ProfitMargins

SpecMargin == InitMargin /\ [][NextMargin]_vars

(***************************************************************************)
(* The ingestion specification: revenue batches of several records, one    *)
(* call at a time.                                                         *)
(***************************************************************************)
DomIngest ==
    [batch_sizes |-> 1..MaxBatch, customers |-> {"acme"}, plans |-> {PlanPro},
     features |-> {"chat"}, quantities |-> {2}, unit_costs |-> {3},
     timestamps |-> {Noon(0)}, revenue_customers |-> {"acme", "globex"},
     revenue_timestamps |-> {Noon(0)}, amounts |-> {5},
     external_ids |-> {"in_1", "in_2"}, dates |-> {Noon(0)}, nows |-> {Noon(1)}]

IngestRevenueBatch == ingest_revenue_data(DomIngest)
IngestUsageBefore == ingest_usage_data(DomIngest)

NextIngest ==
    \/ IngestRevenueBatch
    \/ IngestUsageBefore

SpecIngest == Init /\ [][NextIngest]_vars

(***************************************************************************)
(* The values specification: one customer's usage and revenue on both      *)
(* sides of a midnight, and materialization, one call at a time.           *)
(***************************************************************************)
DomValues ==
    [batch_sizes |-> {1}, customers |-> {"acme"}, plans |-> {PlanPro},
     features |-> {"chat"}, quantities |-> {1, 2}, unit_costs |-> {3},
     timestamps |-> {Noon(0), Midnight(1)}, revenue_customers |-> {"acme"},
     revenue_timestamps |-> {Noon(0), Midnight(1)}, amounts |-> {5},
     external_ids |-> {"in_1", "in_2"}, dates |-> {Noon(0), Midnight(1)},
     nows |-> {Noon(1)}]

ValuesIngestUsage == ingest_usage_data(DomValues)
ValuesIngestRevenue == ingest_revenue_data(DomValues)
ValuesMaterialize == MatCustomers(1, DomValues, FALSE) /\ UNCHANGED clock

NextValues ==
    \/ ValuesIngestUsage
    \/ ValuesIngestRevenue
    \/ ValuesMaterialize
    \/ MaterializeFeatures
    \/ MaterializeCommit

SpecValues == Init /\ [][NextValues]_vars

(***************************************************************************)
(* The concurrent insight specification: two sessions compute insights at  *)
(* the same time (the scheduler's job and the sync endpoint) on a store    *)
(* that lets their transactions write side by side.                        *)
(***************************************************************************)
DomRace ==
    [batch_sizes |-> {1}, customers |-> {"acme"}, plans |-> {PlanLegacy},
     features |-> {"chat"}, quantities |-> {6000}, unit_costs |-> {0},
     timestamps |-> {Noon(1)}, revenue_customers |-> {"acme"},
     revenue_timestamps |-> {Noon(1)}, amounts |-> {40},
     external_ids |-> {"in_1"}, dates |-> {Noon(1)},
     nows |-> {Noon(1), Noon(2)}]

RaceIngestUsage == ingest_usage_data(DomRace)
RaceClockTick == Tick(DomRace)
RaceComputeInsights ==
    /\ \E s \in SessionIds : CiDeactivate(s, TRUE)
    /\ UNCHANGED clock
RaceComputeResume == \E s \in SessionIds : CiResume(s)
RaceComputeRule1 == \E s \in SessionIds : CiRule1(s)
RaceComputeRule2 == \E s \in SessionIds : CiRule2(s)
RaceComputeRule3 == \E s \in SessionIds : CiRule3(s)
RaceComputeCommit == \E s \in SessionIds : CiCommit(s)
RaceComputeFail == \E s \in SessionIds : CiFail(s)

NextRace ==
    \/ RaceIngestUsage
    \/ RaceClockTick
    \/ RaceComputeInsights
    \/ RaceComputeResume
    \/ RaceComputeRule1
    \/ RaceComputeRule2
    \/ RaceComputeRule3
    \/ RaceComputeCommit
    \/ RaceComputeFail

SpecRace == Init /\ [][NextRace]_vars

(***************************************************************************)
(* The scheduler (scheduler_service.py) and POST /api/sync (main.py).  The *)
(* scheduler's clock moves hour by hour; a job whose cron trigger names    *)
(* the hour is started in that hour.  CronTrigger(hour=2, minute=0) fires  *)
(* at 02:00; CronTrigger(hour='*/6') leaves minute and second at their     *)
(* minimum and fires at 00:00, 06:00, 12:00 and 18:00.  The hourly job     *)
(* sync_external_data is a coroutine function handed to a thread-pool      *)
(* scheduler: calling it creates a coroutine nobody awaits, so it changes  *)
(* nothing and has no action here.                                         *)
(***************************************************************************)
CronMaterialize(h) == h % HoursPerDay = MaterializeHour
CronCompute(h) == (h % HoursPerDay) % ComputeEveryHours = 0

DueAt(h) ==
    IF CronMaterialize(h) THEN "materialize_aggregates"
    ELSE IF CronCompute(h) THEN "compute_insights"
    ELSE "none"

SchedulerClock ==
    /\ AllIdle
    /\ clock.due = "none"
    /\ clock.hour < HourOf(Noon(1)) + MaxHours
    /\ clock' = [hour |-> clock.hour + 1, due |-> DueAt(clock.hour + 1)]
    /\ now' = TickOf(clock.hour + 1)
    /\ evaluated' = IF now' = now THEN evaluated ELSE NULL
    /\ last' = [NoCall EXCEPT !.op = "tick"]
    /\ UNCHANGED <<tables, sess, calls, fresh>>

\* SchedulerService.materialize_aggregates: yesterday's aggregates.
materialize_aggregates ==
    /\ clock.due = "materialize_aggregates"
    /\ MatCustomers(1, [dates |-> {now - TicksPerDay}], FALSE)
    /\ clock' = [clock EXCEPT !.due = "none"]

\* SchedulerService.compute_insights.
compute_insights ==
    /\ clock.due = "compute_insights"
    /\ CiDeactivate(1, FALSE)
    /\ clock' = [clock EXCEPT !.due = "none"]

\* trigger_sync: materialize_daily_aggregates(datetime.now()), then
\* compute_insights() when it returned; an exception of either ends the
\* request with status 500.  clock.due = "sync" while the request runs.
trigger_sync ==
    /\ clock.due = "none"
    /\ MatCustomers(1, [dates |-> {now}], FALSE)
    /\ clock' = [clock EXCEPT !.due = "sync"]

trigger_sync_compute ==
    /\ clock.due = "sync"
    /\ last.op = "materialize"
    /\ CiDeactivate(1, FALSE)
    /\ clock' = [clock EXCEPT !.due = "none"]

trigger_sync_failed ==
    /\ clock.due = "sync"
    /\ AllIdle
    /\ last.op = "materialize_failed"
    /\ clock' = [clock EXCEPT !.due = "none"]
    /\ UNCHANGED <<tables, now, sess, calls, fresh, evaluated, last>>

(***************************************************************************)
(* The scheduler specification: usage of day 1 is ingested, the clock runs *)
(* from day 1 12:00 over the day boundary, the scheduler starts its jobs   *)
(* and POST /api/sync is called at any hour.                               *)
(***************************************************************************)
DomSched ==
    [customers |-> {"acme"}, plans |-> {PlanLegacy},
     features |-> {"chat"}, quantities |-> {6000}, unit_costs |-> {1},
     timestamps |-> {Noon(1)}]

SchedIngestUsage == clock.due = "none" /\ ingest_usage_data(DomSched)

NextSched ==
    \/ SchedIngestUsage
    \/ SchedulerClock
    \/ materialize_aggregates
    \/ compute_insights
    \/ trigger_sync
    \/ trigger_sync_compute
    \/ trigger_sync_failed
    \/ MaterializeFeatures
    \/ MaterializeCommit
    \/ MaterializeFail
    \/ ComputeRule1
    \/ ComputeRule2
    \/ ComputeRule3
    \/ ComputeCommit
    \/ ComputeFail

SpecSched == Init /\ [][NextSched]_vars

(***************************************************************************)
(* The window specification: usage of day 0 and of day 33 is ingested and  *)
(* materialized and compute_insights runs on day 1, when day 0 lies in its *)
(* window, and on day 32, when day 0 is more than 30 days old; day 33 lies *)
(* after both evaluations.                                                 *)
(* A row dated after the evaluation exists when materialize is called for  *)
(* a later day: trigger_sync passes datetime.now(), local time, while      *)
(* compute_insights reads datetime.utcnow().                               *)
(***************************************************************************)
DomWindow ==
    [customers |-> {"acme"}, plans |-> {NULL},
     features |-> {"chat"}, quantities |-> {2}, unit_costs |-> {1},
     timestamps |-> {Noon(0), Noon(33)}, dates |-> {Noon(0), Noon(33)},
     nows |-> {Noon(32)}]

WindowIngestUsage == ingest_usage_data(DomWindow)
WindowClockTick == Tick(DomWindow)
WindowMaterialize == MatCustomers(1, DomWindow, FALSE) /\ UNCHANGED clock

NextWindow ==
    \/ WindowIngestUsage
    \/ WindowClockTick
    \/ WindowMaterialize
    \/ MaterializeFeatures
    \/ MaterializeCommit
    \/ ComputeInsights
    \/ ComputeRule1
    \/ ComputeRule2
    \/ ComputeRule3
    \/ ComputeCommit
    \/ ComputeFail

SpecWindow == Init /\ [][NextWindow]_vars

(***************************************************************************)
(* The read-path specification: ingestion, materialization, insight        *)
(* computation and the dashboard query, one call at a time, so that the    *)
(* dashboard is asked over stores whose events, customers and flags have   *)
(* moved on since the rows were materialized.                              *)
(***************************************************************************)
DomIndep ==
    [batch_sizes |-> {1}, customers |-> {"acme"}, plans |-> {PlanLegacy},
     features |-> {"chat"}, quantities |-> {2}, unit_costs |-> {3},
     timestamps |-> {Noon(0)}, revenue_customers |-> {"acme"},
     revenue_timestamps |-> {Noon(0)}, amounts |-> {5},
     external_ids |-> {"in_1"}, dates |-> {Noon(0)},
     ranges |-> {<<Midnight(0), Midnight(1)>>, <<Midnight(1), Midnight(1)>>}]

IndepIngestUsage == ingest_usage_data(DomIndep)
IndepIngestRevenue == ingest_revenue_data(DomIndep)
IndepMaterialize == MatCustomers(1, DomIndep, FALSE) /\ UNCHANGED clock
IndepGetDashboardData == get_dashboard_data(DomIndep)

NextIndep ==
    \/ IndepIngestUsage
    \/ IndepIngestRevenue
    \/ IndepMaterialize
    \/ MaterializeFeatures
    \/ MaterializeCommit
    \/ ComputeInsights
    \/ ComputeRule1
    \/ ComputeRule2
    \/ ComputeRule3
    \/ ComputeCommit
    \/ IndepGetDashboardData

SpecIndep == Init /\ [][NextIndep]_vars

(***************************************************************************)
(* The ownership specification: ingestion and the four operations of the   *)
(* AggregationService, one call at a time, failures included.              *)
(***************************************************************************)
DomOwner ==
    [batch_sizes |-> {1}, customers |-> {"acme"}, plans |-> {PlanLegacy},
     features |-> {"chat"}, quantities |-> {2}, unit_costs |-> {0, 3},
     timestamps |-> {Noon(0)}, revenue_customers |-> {"acme"},
     revenue_timestamps |-> {Noon(0)}, amounts |-> {5},
     external_ids |-> {"in_1"}, dates |-> {Noon(0)},
     ranges |-> {<<Midnight(0), Midnight(1)>>}]

OwnerIngestUsage == ingest_usage_data(DomOwner)
OwnerGetDashboardData == get_dashboard_data(DomOwner)

NextOwner ==
    \/ OwnerIngestUsage
    \/ IndepIngestRevenue
    \/ IndepMaterialize
    \/ MaterializeFeatures
    \/ MaterializeCommit
    \/ MaterializeFail
    \/ ComputeInsights
    \/ ComputeRule1
    \/ ComputeRule2
    \/ ComputeRule3
    \/ ComputeCommit
    \/ ComputeFail
    \/ OwnerGetDashboardData
    \/ GetActiveInsights

SpecOwner == Init /\ [][NextOwner]_vars

(***************************************************************************)
(* The concurrent specification: two sessions materialize at the same      *)
(* time; their queries interleave and their commits are serialized by the  *)
(* database.                                                               *)
(***************************************************************************)
DomConc ==
    [batch_sizes |-> {1}, customers |-> {"acme", "globex"}, plans |-> {PlanPro},
     features |-> {"chat"}, quantities |-> {2}, unit_costs |-> {3},
     timestamps |-> {Noon(1)}, revenue_customers |-> {"acme"},
     revenue_timestamps |-> {Noon(1)}, amounts |-> {5},
     external_ids |-> {"in_1"}, dates |-> {Noon(1)}, nows |-> {Noon(1)}]

ConcIngestUsage == ingest_usage_data(DomConc)
ConcMaterialize ==
    /\ \E s \in SessionIds : MatCustomers(s, DomConc, TRUE)
    /\ UNCHANGED clock
ConcMaterializeFeatures == \E s \in SessionIds : MatFeatures(s)
ConcMaterializeCommit == \E s \in SessionIds : MatCommit(s)

NextConc ==
    \/ ConcIngestUsage
    \/ ConcMaterialize
    \/ ConcMaterializeFeatures
    \/ ConcMaterializeCommit

SpecConc == Init /\ [][NextConc]_vars

(***************************************************************************)
(* Properties of materialize_daily_aggregates                              *)
(***************************************************************************)
MatCommitStep(s) ==
    sess[s].pc = "mat_commit" /\ sess'[s].pc = "idle" /\ last'.op = "materialize"

MatFailStep(s) ==
    /\ sess[s].pc \in {"mat_features", "mat_commit"}
    /\ sess'[s].pc = "idle"
    /\ last'.op = "materialize_failed"

\* C1: a materialize(d) that commits while d is fresh (a materialize(d) has
\* committed and no usage or revenue event was written into the window of d
\* since) leaves every DailyAggregate row as it was and returns 0.
C1_MaterializeIdempotent ==
    [][\A s \in SessionIds :
          (MatCommitStep(s) /\ sess[s].date \in fresh)
             => (daily_aggregates' = daily_aggregates /\ last'.ret = 0)]_vars

C1_Witness ==
    /\ last.op = "materialize"
    /\ last.repeat
    /\ \E a \in daily_aggregates : a.date = last.date /\ IsNull(a.feature)
    /\ \E a \in daily_aggregates : a.date = last.date /\ IsNull(a.customer_id)

\* C2: with calls executed one at a time, no two DailyAggregate rows have
\* the same date, the same customer and the same feature: at most one row
\* per (date, customer) with feature null and per (date, feature) with
\* customer null.
C2_KeyUnique ==
    \A a, b \in daily_aggregates :
        (a.date = b.date /\ a.customer_id = b.customer_id /\ a.feature = b.feature)
           => a.id = b.id

\* a materialize of a day already materialized, after an event was added to it
C2_Witness ==
    /\ last.op = "materialize"
    /\ ~last.repeat
    /\ last.ret = 0
    /\ \E a \in daily_aggregates :
          a.date = last.date /\ IsNull(a.feature) /\ a.usage_count = 2
    /\ \E a \in daily_aggregates :
          a.date = last.date /\ IsNull(a.customer_id) /\ a.usage_count = 2

\* the metric values a single run over the stored events gives the row
SingleRunValues(a) ==
    IF IsNull(a.feature)
    THEN LET agg == CustomerAggregate(Val(a.customer_id), a.date)
         IN  /\ a.usage_total = agg.usage_total
             /\ a.usage_count = agg.usage_count
             /\ a.cost_total = agg.cost_total
             /\ a.revenue_total = CustomerRevenue(Val(a.customer_id), a.date)
    ELSE LET agg == FeatureAggregate(Val(a.feature), a.date)
         IN  /\ a.usage_total = agg.usage_total
             /\ a.usage_count = agg.usage_count
             /\ a.cost_total = agg.cost_total

\* C3: when a materialize(d) commits after another materialize(d) committed
\* between its existence checks and its commit, and both have ended, the
\* store holds at most one row per key of day d, with the values of a
\* single run.
C3_ConcurrentMaterializeTolerated ==
    (last.op = "materialize" /\ last.raced /\ AllIdle)
       => \A a, b \in {r \in daily_aggregates : r.date = last.date} :
             /\ SingleRunValues(a)
             /\ (a.customer_id = b.customer_id /\ a.feature = b.feature) => a.id = b.id

\* C7: a materialize that fails after its session took up inserts or
\* overwrites leaves the committed DailyAggregate rows as they were.
C7_MaterializeAtomic ==
    [][\A s \in SessionIds :
          MatFailStep(s) => daily_aggregates' = daily_aggregates]_vars

\* the failed call had an insert pending and an overwrite pending
C7_Witness ==
    /\ last.op = "materialize_failed"
    /\ last.repeat
    /\ daily_aggregates # {}

(***************************************************************************)
(* Properties of compute_insights                                          *)
(***************************************************************************)
CiCommitStep(s) ==
    sess[s].pc = "ci_commit" /\ sess'[s].pc = "idle" /\ last'.op = "compute"

CiFailStep(s) ==
    /\ sess[s].pc \in {"ci_rule1", "ci_rule2", "ci_rule3", "ci_commit"}
    /\ sess'[s].pc = "idle"
    /\ last'.op = "compute_failed"

IsActive(f) == f.is_active = 1

\* C4: when compute_insights commits and returns n, exactly n flags are
\* active, none of them existed before the call, and every flag that was
\* active before the call is inactive with resolved_at set.
C4_FullRefresh ==
    [][\A s \in SessionIds :
          CiCommitStep(s) =>
             /\ Cardinality({f \in insight_flags' : IsActive(f)}) = last'.ret
             /\ \A f \in insight_flags' : IsActive(f) => f.id \notin Ids(insight_flags)
             /\ \A g \in insight_flags :
                   IsActive(g) =>
                      \E h \in insight_flags' :
                         h.id = g.id /\ h.is_active = 0 /\ ~IsNull(h.resolved_at)]_vars

\* a compute that returned flags of both kinds and replaced earlier ones
C4_Witness ==
    /\ last.op = "compute"
    /\ last.ret >= 2
    /\ \E f \in insight_flags : IsActive(f) /\ ~IsNull(f.customer_id)
    /\ \E f \in insight_flags : ~IsActive(f) /\ ~IsNull(f.customer_id)

\* the rule-derived content of a flag: type, severity, subject
Content(f) == <<f.insight_type, f.severity, f.customer_id, f.message>>

SameContent(A, B) ==
    \A x \in {Content(f) : f \in A \cup B} :
        Cardinality({f \in A : Content(f) = x}) = Cardinality({f \in B : Content(f) = x})

\* C5: a compute_insights that commits while nothing it reads has changed
\* since the last committed compute_insights (no event, customer or
\* aggregate written, same clock) returns the same count and leaves an
\* active set with the same content, flag for flag, as the one it replaced.
C5_RepeatReproduces ==
    [][\A s \in SessionIds :
          (CiCommitStep(s) /\ ~IsNull(evaluated)) =>
             /\ last'.ret = Val(evaluated)
             /\ SameContent({f \in insight_flags : IsActive(f)},
                            {f \in insight_flags' : IsActive(f)})]_vars

C5_Witness ==
    /\ last.op = "compute"
    /\ last.repeat
    /\ last.ret >= 2
    /\ \E f \in insight_flags : IsActive(f) /\ ~IsNull(f.customer_id)

\* C6: a compute_insights that fails after the deactivation step leaves the
\* committed InsightFlag rows as they were.
C6_ComputeAtomic ==
    [][\A s \in SessionIds :
          CiFailStep(s) => insight_flags' = insight_flags]_vars

\* the failed call had deactivated flags in its transaction
C6_Witness ==
    /\ last.op = "compute_failed"
    /\ last.repeat
    /\ \E f \in insight_flags : IsActive(f) /\ IsNull(f.resolved_at)

\* the sums of a customer's events, each event counted once
TotalUsage(c) ==
    LET us == {u \in usage_events : u.customer_id = c.id}
    IN  Sum([u \in us |-> u.quantity], us)

TotalRevenue(c) ==
    LET rs == {r \in revenue_events : r.customer_id = c.id}
    IN  Sum([r \in rs |-> r.amount], rs)

\* C8: after compute_insights, a customer has exactly one active CRITICAL
\* flag when the sum of its usage quantities is > 10000 and the sum of its
\* revenue amounts is < 100, and none otherwise, however the totals are
\* split across events.
C8_HighUsageLowRevenueRule ==
    last.op = "compute" =>
       \A c \in customers :
          Cardinality({f \in insight_flags :
                          /\ IsActive(f)
                          /\ f.severity = "CRITICAL"
                          /\ f.customer_id = Some(c.id)})
             = IF TotalUsage(c) > HighUsageThreshold
                  /\ TotalRevenue(c) < LowRevenueThreshold
               THEN 1 ELSE 0

Features == SeqToSet(FeatureList)

UnprofitableFlagsOf(f) ==
    {g \in insight_flags :
        IsActive(g) /\ g.insight_type = "UNPROFITABLE_FEATURE" /\ g.message[1] = f}

\* C9: after compute_insights, a feature has one active unprofitable-feature
\* flag when its summed cost over the window exceeds its summed revenue and
\* none otherwise; the flag is CRITICAL when cost - revenue > 1000 and
\* WARNING otherwise.
C9_UnprofitableFeatureRule ==
    last.op = "compute" =>
       \A f \in Features :
          LET cost == FeatureTotalCost(f, now)
              revenue == FeatureTotalRevenue(f, now)
          IN  /\ Cardinality(UnprofitableFlagsOf(f)) = IF cost > revenue THEN 1 ELSE 0
              /\ \A g \in UnprofitableFlagsOf(f) :
                    /\ (cost - revenue > CriticalLossThreshold) => g.severity = "CRITICAL"
                    /\ (cost - revenue <= CriticalLossThreshold) => g.severity = "WARNING"

\* a feature whose loss is exactly the threshold
C9_Witness ==
    /\ last.op = "compute"
    /\ \E f \in Features :
          /\ FeatureTotalCost(f, now) - FeatureTotalRevenue(f, now) = CriticalLossThreshold
          /\ UnprofitableFlagsOf(f) # {}

LegacyFlags ==
    {g \in insight_flags : IsActive(g) /\ g.insight_type = "LEGACY_PLAN"}

\* C10: after compute_insights there is exactly one active legacy-plan flag,
\* WARNING and without customer reference, when at least one customer's plan
\* matches 'legacy', and none when no customer's plan does.
C10_LegacyPlanRule ==
    last.op = "compute" =>
       /\ Cardinality(LegacyFlags) =
             IF \E c \in customers : Like(c.plan, LegacyPattern) THEN 1 ELSE 0
       /\ \A g \in LegacyFlags : g.severity = "WARNING" /\ IsNull(g.customer_id)

\* two customers on a legacy plan
C10_Witness ==
    /\ last.op = "compute"
    /\ Cardinality({c \in customers : Like(c.plan, LegacyPattern)}) = 2
    /\ LegacyFlags # {}

FlagOf(id) == CHOOSE f \in insight_flags : f.id = id
SeverityRank == [critical |-> 3, warning |-> 2, info |-> 1]

\* C11: get_active_insights returns each active flag once and nothing else,
\* every critical entry before every warning entry, every warning entry
\* before every info entry, and within a severity a flag created later
\* before a flag created earlier.
C11_ActiveInsightsOrdered ==
    last.op = "get_active_insights" =>
       LET res == last.result
       IN  /\ {res[i].id : i \in 1..Len(res)} = Ids(ActiveFlags(insight_flags))
           /\ Len(res) = Cardinality(ActiveFlags(insight_flags))
           /\ \A i, j \in 1..Len(res) :
                 i < j =>
                    /\ SeverityRank[res[i].type] >= SeverityRank[res[j].type]
                    /\ res[i].type = res[j].type =>
                          FlagOf(res[i].id).created_at >= FlagOf(res[j].id).created_at

FeatureRows == {a \in daily_aggregates : IsNull(a.customer_id) /\ ~IsNull(a.feature)}
CustomerRows == {a \in daily_aggregates : ~IsNull(a.customer_id) /\ IsNull(a.feature)}
DayOf(t) == t \div TicksPerDay
DayRanges == {r \in (0..2) \X (0..2) : r[1] <= r[2]}
InRange(t, r) == r[1] <= DayOf(t) /\ DayOf(t) <= r[2]
Materialized(r) == \A d \in r[1]..r[2] : Midnight(d) \in fresh

\* C12: for every range of days that have all been materialized since the
\* last event was written into them, the cost_total of the feature rows of
\* the range adds up to the quantity x unit_cost of the usage events of the
\* range.
C12_CostConserved ==
    \A r \in DayRanges :
       Materialized(r) =>
          LET rows == {a \in FeatureRows : InRange(a.date, r)}
              events == {e \in usage_events : InRange(e.timestamp, r)}
          IN  Sum([a \in rows |-> a.cost_total], rows)
                 = Sum([e \in events |-> e.quantity * e.unit_cost], events)

\* a materialized range of two days with an event on each, the second one
\* stamped at midnight
C12_Witness ==
    /\ last.op = "materialize"
    /\ Materialized(<<0, 1>>)
    /\ \E e1, e2 \in usage_events :
          /\ DayOf(e1.timestamp) = 0
          /\ e2.timestamp = Midnight(1)
    /\ Cardinality(FeatureRows) >= 2

\* C13: a materialize that commits returns the number of rows it inserted:
\* the table grows by the returned value, the rows that were there before
\* are all still there, and overwritten rows are not counted.
C13_ReturnsInserted ==
    [][\A s \in SessionIds :
          MatCommitStep(s) =>
             /\ Cardinality(daily_aggregates')
                   = Cardinality(daily_aggregates) + last'.ret
             /\ Ids(daily_aggregates) \subseteq Ids(daily_aggregates')
             /\ last'.ret = Cardinality(Ids(daily_aggregates') \ Ids(daily_aggregates))]_vars

\* a materialize that inserted rows for a day which already had rows
C13_Witness ==
    /\ last.op = "materialize"
    /\ last.ret >= 1
    /\ Cardinality({a \in daily_aggregates : a.date = last.date}) > last.ret

\* the dates of the customer-scoped rows between the bounds of the query
SeriesDates(data) ==
    {a.date : a \in {b \in CustomerRows : data.start <= b.date /\ b.date <= data.end}}

\* C14: the time series of get_dashboard_data(start, end) has one entry per
\* date that has a customer-scoped row with start <= date <= end, in
\* ascending date order; an entry's cost and revenue are the sums over the
\* customer-scoped rows of its date and its profit is revenue minus cost.
C14_TimeSeries ==
    last.op = "get_dashboard_data" =>
       LET data == last.result
           ts == data.time_series
       IN  /\ {ts[i].date : i \in DOMAIN ts} = SeriesDates(data)
           /\ Len(ts) = Cardinality(SeriesDates(data))
           /\ \A i, j \in DOMAIN ts : i < j => ts[i].date < ts[j].date
           /\ \A i \in DOMAIN ts :
                 LET rows == {a \in CustomerRows : a.date = ts[i].date}
                 IN  /\ ts[i].usage_cost = Sum([a \in rows |-> a.cost_total], rows)
                     /\ ts[i].revenue = Sum([a \in rows |-> a.revenue_total], rows)
                     /\ ts[i].profit = ts[i].revenue - ts[i].usage_cost

\* a series of two dates, the first one with revenue, over a store that
\* also holds feature rows
C14_Witness ==
    /\ last.op = "get_dashboard_data"
    /\ Len(last.result.time_series) = 2
    /\ last.result.time_series[1].revenue > 0
    /\ last.result.time_series[2].date = last.result.end
    /\ FeatureRows # {}

\* C15: no division of the dashboard fails on a revenue of zero; a feature
\* whose revenue is 0 gets the margin (0 - cost) / 1 * 100 (-5000 for a
\* cost of 50), a feature with another revenue gets
\* (revenue - cost) / revenue * 100, and the summary margin is 0 when the
\* total revenue is 0.
C15_DivisionGuard ==
    last.op = "margins" =>
       LET revenue == last.result.revenue
           cost == last.result.total_cost
           m == last.result.profit_margin
           pct == last.result.profit_margin_percentage
       IN  /\ ~m.raised /\ ~pct.raised
           /\ revenue = 0 => m.num = (0 - cost) * 100 /\ m.den = 1
           /\ (revenue = 0 /\ cost = 50) => m.num = -5000
           /\ revenue # 0 => m.num * revenue = (revenue - cost) * 100 * m.den
           /\ revenue = 0 => pct.num = 0 /\ pct.den # 0

\* a revenue of 0 against a cost of 50
C15_Witness ==
    /\ last.op = "margins"
    /\ last.result.revenue = 0
    /\ last.result.total_cost = 50
    /\ last.result.profit_margin.num = -5000

\* C16: the summary's total cost and total revenue are the sums of the cost
\* and the revenue of the returned time-series entries, and its total
\* profit is the total revenue minus the total cost.
C16_SummaryConsistent ==
    last.op = "get_dashboard_data" =>
       LET data == last.result
           ts == data.time_series
       IN  /\ data.summary.total_usage_cost
                 = Sum([i \in DOMAIN ts |-> ts[i].usage_cost], DOMAIN ts)
           /\ data.summary.total_revenue
                 = Sum([i \in DOMAIN ts |-> ts[i].revenue], DOMAIN ts)
           /\ data.summary.total_profit
                 = data.summary.total_revenue - data.summary.total_usage_cost

\* a summary over two entries with revenue and cost
C16_Witness ==
    /\ last.op = "get_dashboard_data"
    /\ Len(last.result.time_series) = 2
    /\ last.result.summary.total_revenue > 0
    /\ last.result.summary.total_usage_cost
          > last.result.time_series[1].usage_cost

\* C17: for a range of days that were all materialized, the total_cost of
\* the returned feature metrics adds up to the summary's total cost and
\* their revenue adds up to the summary's total revenue.
C17_FeatureMetricsSumToTotals ==
    (/\ last.op = "get_dashboard_data"
     /\ Materialized(<<DayOf(last.result.start), DayOf(last.result.end)>>)
     /\ last.result.start = StartOfDay(last.result.start))
       => LET data == last.result
              fm == data.feature_metrics
          IN  /\ Sum([i \in DOMAIN fm |-> fm[i].total_cost], DOMAIN fm)
                    = data.summary.total_usage_cost
              /\ Sum([i \in DOMAIN fm |-> fm[i].revenue], DOMAIN fm)
                    = data.summary.total_revenue

ExternalIds(batch) == {batch[i].external_id : i \in DOMAIN batch}
WithExternalId(tbl, xid) == {r \in tbl : r.external_id = xid}

\* C18: every ingest_revenue_data call returns without raising, also on a
\* batch that holds an external_id twice; afterwards there is exactly one
\* RevenueEvent for each external_id of the batch, and the return value is
\* the number of events the call stored (duplicates are not counted).
C18_DuplicateRevenueSkipped ==
    [][last'.op \in {"ingest_revenue", "ingest_revenue_failed"} =>
          /\ last'.op = "ingest_revenue"
          /\ \A xid \in ExternalIds(last'.result) :
                Cardinality(WithExternalId(revenue_events', xid)) = 1
          /\ last'.ret = Cardinality(revenue_events') - Cardinality(revenue_events)
          /\ revenue_events \subseteq revenue_events']_vars

\* the events of a customer stamped at or after d 00:00 and before d+1 00:00
UsageOfDay(cid, d) ==
    {e \in usage_events :
        e.customer_id = cid /\ d <= e.timestamp /\ e.timestamp < d + TicksPerDay}
RevenueOfDay(cid, d) ==
    {r \in revenue_events :
        r.customer_id = cid /\ d <= r.timestamp /\ r.timestamp < d + TicksPerDay}

\* C19: after materialize(d), every customer with a usage event in
\* [d 00:00, d+1 00:00) has one customer-scoped row for d, with usage_total
\* the sum of the quantities, usage_count the number of events, cost_total
\* the sum of quantity x unit_cost, and revenue_total the sum of the
\* customer's revenue amounts in the same window (0 without any); an event
\* stamped d+1 00:00 belongs to d+1.
C19_CustomerValues ==
    last.op = "materialize" =>
       \A c \in customers :
          LET es == UsageOfDay(c.id, last.date)
              rs == RevenueOfDay(c.id, last.date)
              rows == {a \in CustomerRows :
                          a.date = last.date /\ a.customer_id = Some(c.id)}
          IN  es # {} =>
                 /\ Cardinality(rows) = 1
                 /\ \A a \in rows :
                       /\ a.usage_total = Sum([e \in es |-> e.quantity], es)
                       /\ a.usage_count = Cardinality(es)
                       /\ a.cost_total = Sum([e \in es |-> e.quantity * e.unit_cost], es)
                       /\ a.revenue_total = Sum([r \in rs |-> r.amount], rs)

\* materialize(day 0) for a customer with usage and revenue at noon of day 0
\* and at midnight of day 1
C19_Witness ==
    /\ last.op = "materialize"
    /\ last.date = Midnight(0)
    /\ \E c \in customers :
          /\ UsageOfDay(c.id, Midnight(0)) # {}
          /\ \E e \in usage_events : e.customer_id = c.id /\ e.timestamp = Midnight(1)
          /\ RevenueOfDay(c.id, Midnight(0)) # {}
          /\ \E r \in revenue_events : r.customer_id = c.id /\ r.timestamp = Midnight(1)

\* C20: a materialize(d) that commits while no usage event is stamped in
\* the day d returns 0 and leaves every DailyAggregate row as it was,
\* whether or not revenue events are stamped in the day.
C20_EmptyDay ==
    [][\A s \in SessionIds :
          (/\ MatCommitStep(s)
           /\ \A e \in usage_events : DayOf(e.timestamp) # DayOf(sess[s].date))
             => (last'.ret = 0 /\ daily_aggregates' = daily_aggregates)]_vars

\* materialize of a day with a revenue event and no usage event, on a store
\* that holds rows of another day
C20_Witness ==
    /\ last.op = "materialize"
    /\ \A e \in usage_events : DayOf(e.timestamp) # DayOf(last.date)
    /\ \E r \in revenue_events : DayOf(r.timestamp) = DayOf(last.date)
    /\ daily_aggregates # {}
    /\ AllIdle

\* C21: every DailyAggregate row has exactly one of customer_id and feature
\* populated: it is customer-scoped (feature null) or feature-scoped
\* (customer null), never both and never neither.
C21_OneScopePerRow ==
    \A a \in daily_aggregates : IsNull(a.customer_id) # IsNull(a.feature)

\* a store with rows of both scopes, written by two materialize calls
C21_Witness ==
    /\ \E a \in daily_aggregates : ~IsNull(a.customer_id)
    /\ \E a \in daily_aggregates : ~IsNull(a.feature)
    /\ Cardinality({a.date : a \in daily_aggregates}) = 2

\* the insight type and the subject of a flag: the customer, the feature or
\* the legacy-plan summary
Subject(f) == <<f.insight_type, f.customer_id, f.message[1]>>

C23_HistoryPreserved ==
    [][\A f \in insight_flags :
          \E g \in insight_flags' :
             /\ g.id = f.id
             /\ f.is_active = 0 => g = f
             /\ g = [f EXCEPT !.is_active = g.is_active,
                              !.resolved_at = g.resolved_at]]_vars

\* a third compute_insights has committed after a flag was resolved at an
\* earlier time
C23_Witness ==
    /\ last.op = "compute"
    /\ \E f \in insight_flags :
          f.is_active = 0 /\ ~IsNull(f.resolved_at) /\ Val(f.resolved_at) < now
    /\ \E f \in insight_flags : f.is_active = 0 /\ f.resolved_at = Some(now)
    /\ ActiveFlags(insight_flags) # {}

\* C24: the scheduler starts no compute_insights run after a day boundary
\* before materialize for the day that ended has committed, and the
\* compute_insights of POST /api/sync starts only after its
\* materialize_daily_aggregates returned.
C24_ScheduledOrder ==
    [][/\ (clock.due = "compute_insights" /\ clock'.due = "none"
              /\ DayOf(now) > DayOf(Noon(1)))
          => Midnight(DayOf(now) - 1) \in fresh
       /\ (clock.due = "sync" /\ clock'.due = "none" /\ sess' # sess)
          => last.op = "materialize"]_vars

\* the feature rows of the 30 days that end at the evaluation time
TrailingWindowRows(f) ==
    {a \in daily_aggregates :
        /\ ~IsNull(a.feature) /\ a.feature = Some(f)
        /\ a.date >= Last30Days(now) /\ a.date <= now}

\* C25: the unprofitable-feature rule sums, per feature, the feature rows
\* dated within the 30 days ending at the evaluation time and no other row:
\* after compute_insights a feature is flagged exactly when the cost of those
\* rows exceeds their revenue, and the flag carries those two totals.
C25_TrailingWindow ==
    last.op = "compute" =>
       \A f \in Features :
          LET rows == TrailingWindowRows(f)
              cost == Sum([a \in rows |-> a.cost_total], rows)
              revenue == Sum([a \in rows |-> a.revenue_total], rows)
          IN  /\ (UnprofitableFlagsOf(f) # {}) <=> (cost > revenue)
              /\ \A g \in UnprofitableFlagsOf(f) :
                    g.message[2] = cost /\ g.message[3] = revenue

\* C26: the dashboard is a function of the DailyAggregate rows: a step that
\* leaves the DailyAggregate rows as they are, whatever it does to the
\* customers, the usage events, the revenue events and the insight flags,
\* leaves the result of get_dashboard_data of every range as it is.
C26_AggregatesAlone ==
    [][(/\ daily_aggregates' = daily_aggregates
        /\ <<customers, usage_events, revenue_events, insight_flags>>' #
              <<customers, usage_events, revenue_events, insight_flags>>)
       => \A r \in DomIndep.ranges :
             DashboardData(r[1], r[2])' = DashboardData(r[1], r[2])]_vars

\* the dashboard answered from rows that were materialized before a second
\* usage event, the revenue event and the insight flags came into the store
C26_Witness ==
    /\ last.op = "get_dashboard_data"
    /\ last.result.time_series # <<>>
    /\ last.result.summary.total_revenue = 0
    /\ revenue_events # {}
    /\ insight_flags # {}
    /\ Cardinality(usage_events) = 2
    /\ \A a \in daily_aggregates : a.usage_count = 1

MaterializeSteps == {"mat_features", "mat_commit"}
ComputeSteps == {"ci_blocked", "ci_rule1", "ci_rule2", "ci_rule3", "ci_commit"}
QueryReturns ==
    {"get_dashboard_data", "get_dashboard_data_failed", "get_active_insights"}

\* the step belongs to a call whose steps are named in pcs
StepOf(pcs) == \E s \in SessionIds : sess[s].pc \in pcs \/ sess'[s].pc \in pcs

\* C27: a step of materialize_daily_aggregates leaves the InsightFlag rows
\* unchanged and a step of compute_insights the DailyAggregate rows; a step
\* of get_dashboard_data or get_active_insights leaves both unchanged; no
\* step of the four changes the customers, the usage events or the revenue
\* events; and the DailyAggregate rows change in steps of materialize only,
\* the InsightFlag rows in steps of compute_insights only.
C27_Ownership ==
    [][/\ StepOf(MaterializeSteps) =>
             /\ insight_flags' = insight_flags
             /\ UNCHANGED <<customers, usage_events, revenue_events>>
       /\ StepOf(ComputeSteps) =>
             /\ daily_aggregates' = daily_aggregates
             /\ UNCHANGED <<customers, usage_events, revenue_events>>
       /\ (last'.op \in QueryReturns /\ last' # last) => UNCHANGED tables
       /\ daily_aggregates' # daily_aggregates => StepOf(MaterializeSteps)
       /\ insight_flags' # insight_flags => StepOf(ComputeSteps)]_vars

\* get_active_insights has answered over a store that holds rows of every
\* table, the flags of two compute_insights runs among them
C27_Witness ==
    /\ last.op = "get_active_insights"
    /\ Len(last.result) > 0
    /\ daily_aggregates # {}
    /\ \E f \in insight_flags : ~IsActive(f)
    /\ \E f \in insight_flags : IsActive(f)
    /\ customers # {} /\ usage_events # {} /\ revenue_events # {}

\* C28: every feature-scoped DailyAggregate row has revenue_total = 0,
\* whatever was ingested and materialized, and after compute_insights a
\* feature is flagged as unprofitable exactly when the cost_total of its
\* rows in the window of the rule is greater than 0.
C28_FeatureRowsNoRevenue ==
    /\ \A a \in FeatureRows : a.revenue_total = 0
    /\ last.op = "compute" =>
          \A f \in Features :
             (UnprofitableFlagsOf(f) # {}) <=> (FeatureTotalCost(f, now) > 0)

\* a flagged feature on a day whose customer row carries revenue, the
\* feature row aggregating two usage events
C28_Witness ==
    /\ last.op = "compute"
    /\ \E a \in CustomerRows : a.revenue_total > 0
    /\ \E a \in FeatureRows :
          /\ a.usage_count = 2 /\ a.cost_total > 0
          /\ UnprofitableFlagsOf(a.feature[1]) # {}

\* the revenue events in the range of a dashboard call whose customer has a
\* usage event on the day of the revenue event
RevenueWithUsage(data) ==
    {r \in revenue_events :
        /\ data.start <= StartOfDay(r.timestamp)
        /\ StartOfDay(r.timestamp) <= data.end
        /\ UsageOfDay(r.customer_id, StartOfDay(r.timestamp)) # {}}

\* C29: a customer-scoped row exists only for a customer with a usage event
\* on the day of the row; right after materialize(d) the customers with a
\* row of d are exactly the customers with a usage event in the window of
\* d; and over materialized days the dashboard's total revenue is the
\* revenue of the customers with usage on the day of the revenue, so the
\* revenue of a customer without usage is in no row and in no total.
C29_RowsOnlyWithUsage ==
    /\ \A a \in CustomerRows : UsageOfDay(a.customer_id[1], a.date) # {}
    /\ last.op = "materialize" =>
          {a.customer_id[1] : a \in {b \in CustomerRows : b.date = last.date}}
             = {e.customer_id : e \in UsageInWindow(last.date)}
    /\ (/\ last.op = "get_dashboard_data"
        /\ \A d \in 0..2 :
              (last.result.start <= Midnight(d) /\ Midnight(d) <= last.result.end)
                 => Midnight(d) \in fresh)
       => LET rs == RevenueWithUsage(last.result)
          IN  last.result.summary.total_revenue = Sum([r \in rs |-> r.amount], rs)

\* the dashboard over a materialized day on which one customer has usage
\* and another one revenue only
C29_Witness ==
    /\ last.op = "get_dashboard_data"
    /\ last.result.start = Midnight(0) /\ last.result.end = Midnight(0)
    /\ Midnight(0) \in fresh
    /\ last.result.summary.total_revenue = 0
    /\ last.result.summary.total_usage_cost > 0
    /\ \E r \in revenue_events :
          /\ StartOfDay(r.timestamp) = Midnight(0)
          /\ UsageOfDay(r.customer_id, Midnight(0)) = {}

\* the customer or the feature of a row has a usage event in the window of d
HasUsageInWindow(a, d) ==
    IF ~IsNull(a.customer_id)
    THEN \E e \in UsageInWindow(d) : Some(e.customer_id) = a.customer_id
    ELSE \E e \in UsageInWindow(d) : Some(e.feature) = a.feature

\* C30: the commit of materialize(d) leaves every row of another date as it
\* is, and every row of d whose customer or feature has no usage event in
\* the window of d; every row it inserts or overwrites is a row of d whose
\* customer or feature has a usage event in the window.
C30_MaterializeFrame ==
    [][\A s \in SessionIds :
          MatCommitStep(s) =>
             /\ \A a \in daily_aggregates :
                   (a.date # sess[s].date \/ ~HasUsageInWindow(a, sess[s].date))
                      => a \in daily_aggregates'
             /\ \A b \in daily_aggregates' \ daily_aggregates :
                   b.date = sess[s].date /\ HasUsageInWindow(b, sess[s].date)]_vars

\* materialize of a day has inserted rows into a store that holds the rows
\* of another day
C30_Witness ==
    /\ last.op = "materialize"
    /\ last.ret > 0
    /\ \E a \in daily_aggregates : a.date # last.date
    /\ \E a \in CustomerRows : a.date = last.date
    /\ \E a \in FeatureRows : a.date = last.date

====
